---- MODULE Spec2Model ----
(***************************************************************************)
(* Model of .github/scripts/claude-review.py: ClaudeCodebaseReviewer.       *)
(*                                                                         *)
(* Three specifications share the variables below:                         *)
(*   SpecChunk  applies chunk_files_for_review to bounded file lists,      *)
(*   SpecParse  applies review_chunk to bounded response texts,            *)
(*   Spec       is the whole process: __main__ -> __init__ -> run.         *)
(*                                                                         *)
(* A file is modelled by its path and the length of its content; a model   *)
(* response is a sequence of tokens; an issue is a dict over the keys the  *)
(* script reads, an absent key being the value Missing.                    *)
(***************************************************************************)
EXTENDS Integers, Sequences, FiniteSets

VARIABLES
    pc,               \* position of the process / of the function under test
    anthropic_key,    \* os.environ.get('ANTHROPIC_API_KEY')
    github_token,     \* os.environ.get('GITHUB_TOKEN')
    review_type,      \* os.environ.get('REVIEW_TYPE', 'comprehensive')
    files,            \* get_codebase_files() result / input of the batcher
    max_tokens,       \* token budget given to chunk_files_for_review
    chunks,           \* chunk_files_for_review() result
    chunk_i,          \* run(): 1-based index of the chunk reviewed next
    requests,         \* number of messages.create calls sent
    response_text,    \* text of the model response handled last
    issues,           \* value returned by review_chunk handled last
    all_issues,       \* run(): the aggregated issue list
    review_summary,   \* content written to review_summary.md, or NoReport
    critical_issues,  \* create_github_issues locals
    high_issues,
    other_issues,
    issue_i,          \* index into critical_issues + high_issues
    labels,           \* label list of the issue being handled
    label_i,          \* index of the label whose label_exists call is next
    kept,             \* labels for which label_exists returned True
    confirmed,        \* labels a get_label or create_label call succeeded for
    tracker_ops,      \* kinds of issue-tracker calls made so far
    issue_calls,      \* log of repo.create_issue calls
    created_issues,   \* number of entries of created_issues
    exit_status       \* process exit status, Running while alive

vars == << pc, anthropic_key, github_token, review_type, files, max_tokens, chunks, chunk_i,
           requests, response_text, issues, all_issues, review_summary,
           critical_issues, high_issues, other_issues, issue_i, labels,
           label_i, kept, confirmed, tracker_ops, issue_calls, created_issues,
           exit_status >>

(***************************************************************************)
(* Bounds of the model.                                                    *)
(***************************************************************************)
MaxFiles == 3        \* SpecChunk: longest file list
MaxBudget == 3       \* SpecChunk: largest token budget
MaxRespLen == 6      \* SpecParse: longest response text, in tokens
MaxRunFiles == 5     \* Spec: most files on disk

(***************************************************************************)
(* Program constants.                                                      *)
(***************************************************************************)
CharsPerToken == 4
MaxFileChars == 50000
DefaultMaxTokens == 50000

Running == -1
NoReport == [written |-> FALSE]
Missing == "<missing>"
NonStr == "<non-string>"

Range(s) == { s[i] : i \in 1..Len(s) }

RECURSIVE SumSeq(_)
SumSeq(s) == IF s = << >> THEN 0 ELSE Head(s) + SumSeq(Tail(s))

RECURSIVE Flatten(_)
Flatten(ss) == IF ss = << >> THEN << >> ELSE Head(ss) \o Flatten(Tail(ss))

(***************************************************************************)
(* get_codebase_files: a directory entry is kept when no directory on its  *)
(* path is excluded, its name ends with an accepted extension, it reads as *)
(* UTF-8 and its content is shorter than 50000 characters.                 *)
(***************************************************************************)
Collectable(e) ==
    /\ ~e.in_excluded_dir
    /\ e.ext_ok
    /\ e.readable
    /\ e.content_len < MaxFileChars

get_codebase_files(disk) ==
    LET kept_entries == SelectSeq(disk, Collectable)
    IN  [ i \in 1..Len(kept_entries) |->
            [ path |-> kept_entries[i].path,
              content_len |-> kept_entries[i].content_len ] ]

(***************************************************************************)
(* chunk_files_for_review: the greedy loop of lines 129-140, then the      *)
(* flush of lines 142-143.                                                 *)
(***************************************************************************)
file_tokens(file) == file.content_len \div CharsPerToken

\* mutant: the running size is left out of the comparison
exceeds_budget_file_only(current_size, t, budget) == t > budget

exceeds_budget(current_size, t, budget) == current_size + t > budget

\* mutant: the finished chunk is never appended
close_chunk_dropped(done, current_chunk) == done

close_chunk(done, current_chunk) ==
    IF current_chunk # << >> THEN Append(done, current_chunk) ELSE done

RECURSIVE ChunkLoop(_, _, _, _, _)
ChunkLoop(fs, budget, done, current_chunk, current_size) ==
    IF fs = << >>
    THEN close_chunk(done, current_chunk)
    ELSE LET file == Head(fs)
             t == file_tokens(file)
         IN  IF exceeds_budget(current_size, t, budget)
             THEN ChunkLoop(Tail(fs), budget, close_chunk(done, current_chunk),
                            << file >>, t)
             ELSE ChunkLoop(Tail(fs), budget, done,
                            Append(current_chunk, file), current_size + t)

chunk_files_for_review(fs, budget) == ChunkLoop(fs, budget, << >>, << >>, 0)

(***************************************************************************)
(* Issues: dicts decoded from the model's JSON.  Every key the script      *)
(* reads is a field; Missing stands for an absent key, NonStr for a JSON   *)
(* value that is not a string (a number, null, a list, an object).         *)
(***************************************************************************)
Get(d, key, default) == IF d[key] = Missing THEN default ELSE d[key]

Full(sev) ==
    [ severity |-> sev, category |-> "security", title |-> "T",
      file |-> "a.py", line |-> "12", description |-> "D", suggestion |-> "S" ]

Bare(sev) ==
    [ severity |-> sev, category |-> Missing, title |-> Missing,
      file |-> Missing, line |-> Missing, description |-> Missing,
      suggestion |-> Missing ]

crit_full == Full("critical")
crit_sparse == [ Bare("critical") EXCEPT !.title = "T2" ]
high_untitled == [ Full("high") EXCEPT !.title = Missing ]
med_full == [ Full("medium") EXCEPT !.category = "quality" ]
low_nocat == [ Full("low") EXCEPT !.category = Missing ]
info_issue == Full("info")
nosev_issue == [ Full("low") EXCEPT !.severity = Missing ]
badcat_issue == [ Full("medium") EXCEPT !.category = NonStr ]

ListValue(items) == [ kind |-> "list", items |-> items ]
NullValue == [ kind |-> "null", items |-> << >> ]

(***************************************************************************)
(* Response texts.  A text is a sequence of tokens:                        *)
(*   "{" "}"   the brace characters,                                       *)
(*   "p"       a character of prose (neither a brace nor JSON),            *)
(*   "k"       the text  "key":  , which must be followed by an object,    *)
(*   an issues token: the text  "issues": <value>  for the value           *)
(*   PayloadOf gives.                                                      *)
(* Commas and white space between members are left out.                    *)
(***************************************************************************)
IssuesTokens ==
    { "iEmpty", "iCrit", "iMixed", "iMed", "iOdd", "iCritMed", "iBadCat", "iNull" }

PayloadOf(tok) ==
    CASE tok = "iEmpty"   -> ListValue(<< >>)
      [] tok = "iCrit"    -> ListValue(<< crit_full >>)
      [] tok = "iMixed"   -> ListValue(<< high_untitled, crit_sparse >>)
      [] tok = "iMed"     -> ListValue(<< med_full, low_nocat >>)
      [] tok = "iOdd"     -> ListValue(<< info_issue, nosev_issue >>)
      [] tok = "iCritMed" -> ListValue(<< crit_full, med_full >>)
      [] tok = "iBadCat"  -> ListValue(<< badcat_issue >>)
      [] tok = "iNull"    -> NullValue

(***************************************************************************)
(* re.search(r'\{.*\}', text, re.DOTALL): leftmost "{", then the longest   *)
(* run that still ends in "}" -- the first "{" up to the last "}".         *)
(***************************************************************************)
BraceOpen(text) == { i \in 1..Len(text) : text[i] = "{" }
BraceClose(text) == { i \in 1..Len(text) : text[i] = "}" }
MinOf(S) == CHOOSE x \in S : \A y \in S : x <= y
MaxOf(S) == CHOOSE x \in S : \A y \in S : x >= y

\* mutant: the non-greedy pattern \{.*?\}
match_end_lazy(text, start) == MinOf({ j \in BraceClose(text) : j > start })

match_end(text, start) == MaxOf({ j \in BraceClose(text) : j > start })

re_search(text) ==
    IF BraceOpen(text) = {} \/ { j \in BraceClose(text) : j > MinOf(BraceOpen(text)) } = {}
    THEN [ found |-> FALSE, group |-> << >> ]
    ELSE [ found |-> TRUE,
           group |-> SubSeq(text, MinOf(BraceOpen(text)),
                            match_end(text, MinOf(BraceOpen(text)))) ]

(***************************************************************************)
(* json.loads on a matched region.  The region starts with "{" and ends    *)
(* with "}", so it decodes, if at all, to a dict.  Of two members with the *)
(* same key the later one wins.                                            *)
(***************************************************************************)
RECURSIVE IsObject(_)
RECURSIVE IsMembers(_)
IsObject(s) ==
    /\ Len(s) >= 2
    /\ s[1] = "{"
    /\ s[Len(s)] = "}"
    /\ IsMembers(SubSeq(s, 2, Len(s) - 1))

IsMembers(t) ==
    IF t = << >> THEN TRUE
    ELSE IF Head(t) \in IssuesTokens THEN IsMembers(Tail(t))
    ELSE IF Head(t) = "k"
         THEN \E j \in 2..Len(t) :
                  /\ IsObject(SubSeq(t, 2, j))
                  /\ IsMembers(SubSeq(t, j + 1, Len(t)))
         ELSE FALSE

Depth(s, i) ==
    Cardinality({ j \in 1..(i - 1) : s[j] = "{" })
      - Cardinality({ j \in 1..(i - 1) : s[j] = "}" })

\* positions of the "issues" members of the outermost object of s
TopIssues(s) == { i \in 1..Len(s) : s[i] \in IssuesTokens /\ Depth(s, i) = 1 }

json_loads(s) ==
    IF ~IsObject(s) THEN [ ok |-> FALSE, has_issues |-> FALSE, issues |-> NullValue ]
    ELSE IF TopIssues(s) = {}
         THEN [ ok |-> TRUE, has_issues |-> FALSE, issues |-> NullValue ]
         ELSE [ ok |-> TRUE, has_issues |-> TRUE,
                issues |-> PayloadOf(s[MaxOf(TopIssues(s))]) ]

(***************************************************************************)
(* review_chunk, lines 178-201.  api is the outcome of messages.create:    *)
(* "api_error" (the call raises), "no_content" (response.content is        *)
(* empty) or "text".  The result is the returned value and whether the     *)
(* except branch logged an error.                                          *)
(***************************************************************************)
Returned(value, logged) ==
    [ kind |-> value.kind, items |-> value.items, logged |-> logged ]

review_chunk(api) ==
    IF api.outcome # "text"
    THEN Returned(ListValue(<< >>), TRUE)
    ELSE LET json_match == re_search(api.text)
         IN  IF json_match.found
             THEN LET issues_data == json_loads(json_match.group)
                  IN  IF ~issues_data.ok
                      THEN Returned(ListValue(<< >>), TRUE)
                      ELSE IF issues_data.has_issues
                           THEN Returned(issues_data.issues, FALSE)
                           ELSE Returned(ListValue(<< >>), FALSE)
             ELSE Returned(ListValue(<< >>), FALSE)

(***************************************************************************)
(* generate_summary_report, lines 330-359.  The report is built before the *)
(* file is opened; cat.title() raises for a category that is no string.    *)
(***************************************************************************)
CountSeverity(iss, sev) == Len(SelectSeq(iss, LAMBDA i : i.severity = sev))

CategoryOf(issue) == Get(issue, "category", "general")

Title(cat) ==
    CASE cat = "security" -> "Security"
      [] cat = "quality"  -> "Quality"
      [] cat = "general"  -> "General"
      [] OTHER            -> cat

\* keys of the categories dict, in insertion order
RECURSIVE CategoryKeys(_, _)
CategoryKeys(iss, seen) ==
    IF iss = << >> THEN seen
    ELSE IF CategoryOf(Head(iss)) \in Range(seen)
         THEN CategoryKeys(Tail(iss), seen)
         ELSE CategoryKeys(Tail(iss), Append(seen, CategoryOf(Head(iss))))

CountCategory(iss, cat) == Len(SelectSeq(iss, LAMBDA i : CategoryOf(i) = cat))

\* sorted(..., key=count, reverse=True): stable, descending
RECURSIVE InsertByCount(_, _)
InsertByCount(sorted, item) ==
    IF sorted = << >> THEN << item >>
    ELSE IF Head(sorted).count >= item.count
         THEN << Head(sorted) >> \o InsertByCount(Tail(sorted), item)
         ELSE << item >> \o sorted

RECURSIVE SortByCount(_, _)
SortByCount(items, sorted) ==
    IF items = << >> THEN sorted
    ELSE SortByCount(Tail(items), InsertByCount(sorted, Head(items)))

CategoryLines(iss) ==
    LET keys == CategoryKeys(iss, << >>)
        items == [ k \in 1..Len(keys) |->
                     [ category |-> Title(keys[k]),
                       count |-> CountCategory(iss, keys[k]) ] ]
    IN  SortByCount(items, << >>)

report_raises(iss) == \E k \in 1..Len(iss) : CategoryOf(iss[k]) = NonStr

generate_summary_report(iss) ==
    [ written  |-> TRUE,
      total    |-> Len(iss),
      critical |-> CountSeverity(iss, "critical"),
      high     |-> CountSeverity(iss, "high"),
      medium   |-> CountSeverity(iss, "medium"),
      low      |-> CountSeverity(iss, "low"),
      by_category |-> CategoryLines(iss) ]

(***************************************************************************)
(* create_github_issues, lines 207-248: the three groups, the title, the   *)
(* body and the labels of one critical/high issue.                         *)
(***************************************************************************)
select_critical(iss) == SelectSeq(iss, LAMBDA i : i.severity = "critical")
select_high(iss) == SelectSeq(iss, LAMBDA i : i.severity = "high")
select_other(iss) == SelectSeq(iss, LAMBDA i : i.severity \in { "medium", "low" })

Upper(sev) ==
    CASE sev = "critical" -> "CRITICAL"
      [] sev = "high"     -> "HIGH"
      [] sev = "unknown"  -> "UNKNOWN"
      [] OTHER            -> sev

\* issue['title'] raises KeyError when the key is absent
title_raises(issue) == issue.title = Missing

issue_title(issue) == << "[Claude Review]", issue.title >>

issue_body(issue) ==
    [ severity    |-> Upper(Get(issue, "severity", "unknown")),
      category    |-> Get(issue, "category", "general"),
      file        |-> Get(issue, "file", "N/A"),
      line        |-> Get(issue, "line", "N/A"),
      description |-> Get(issue, "description", "No description provided"),
      suggestion  |-> Get(issue, "suggestion", "No suggestion provided") ]

issue_labels(issue) ==
    << << "severity", Get(issue, "severity", "unknown") >>,
       << "category", Get(issue, "category", "general") >>,
       << "label", "claude-review" >>,
       << "label", "automated" >> >>

summary_labels ==
    << << "label", "claude-review" >>, << "label", "automated" >>,
       << "label", "summary" >> >>

\* create_summary_issue, lines 267-296: title count and per-category sections
RECURSIVE TakeUpTo(_, _)
TakeUpTo(s, n) ==
    IF n = 0 \/ s = << >> THEN << >>
    ELSE << Head(s) >> \o TakeUpTo(Tail(s), n - 1)

SummaryPerCategory == 10

summary_body(iss) ==
    LET keys == CategoryKeys(iss, << >>)
    IN  [ k \in 1..Len(keys) |->
            [ category |-> Title(keys[k]),
              count |-> CountCategory(iss, keys[k]),
              listed |-> TakeUpTo(SelectSeq(iss, LAMBDA i : CategoryOf(i) = keys[k]),
                                  SummaryPerCategory) ] ]

(***************************************************************************)
(* label_exists, lines 308-328.  outcome is what the tracker does:         *)
(* "found"   get_label succeeds,                                           *)
(* "created" get_label raises and create_label succeeds,                   *)
(* "failed"  both raise.                                                   *)
(***************************************************************************)
LabelOutcomes == { "found", "created", "failed" }

label_exists(outcome) == outcome \in { "found", "created" }

label_ops(outcome) ==
    IF outcome = "found" THEN { "get_label" } ELSE { "get_label", "create_label" }

(***************************************************************************)
(* The try/except blocks.  per_issue_except: lines 214 and 256-257, which  *)
(* catch every Exception raised while one critical/high issue is handled.  *)
(* summary_except: lines 298 and 305-306.                                  *)
(***************************************************************************)
\* mutant: except KeyError instead of except Exception
per_issue_except_narrow(exc) == exc = "KeyError"

per_issue_except(exc) == exc \in { "KeyError", "GithubException" }

summary_except(exc) == exc \in { "KeyError", "GithubException" }

(***************************************************************************)
(* __init__, lines 19-31.  `not value` holds for None and for "".          *)
(***************************************************************************)
Unset == "<unset>"
EnvValues == { Unset, "", "secret" }
ReviewTypes == { "comprehensive", "security", "performance", "architecture", "bugs" }

\* mutant: the second check is left out
missing_credential_key_only(key, token) == key \in { Unset, "" }

missing_credential(key, token) == key \in { Unset, "" } \/ token \in { Unset, "" }

(***************************************************************************)
(* Inputs.                                                                 *)
(***************************************************************************)
NoValue == [ kind |-> "none", items |-> << >>, logged |-> FALSE ]

\* SpecChunk: content lengths, 0 to 4 tokens each
FileLens == { 0, 3, 4, 7, 9, 17 }

FileLists ==
    UNION { { [ i \in 1..n |-> [ path |-> i, content_len |-> f[i] ] ] :
                f \in [ 1..n -> FileLens ] } : n \in 0..MaxFiles }

\* SpecParse: every text of at most MaxRespLen tokens over this alphabet
ParseAlphabet == { "{", "}", "p", "k", "iCrit", "iNull" }

ResponseTexts == UNION { [ 1..n -> ParseAlphabet ] : n \in 0..MaxRespLen }

\* Spec: the directory tree walked by get_codebase_files
DiskFile(path, len) ==
    [ path |-> path, content_len |-> len, ext_ok |-> TRUE, readable |-> TRUE,
      in_excluded_dir |-> FALSE ]

BigDisk(n) == [ i \in 1..n |-> DiskFile(i, MaxFileChars - 1) ]

MixedDisk ==
    << DiskFile(1, 1000),
       DiskFile(2, MaxFileChars),
       [ DiskFile(3, 1000) EXCEPT !.ext_ok = FALSE ],
       [ DiskFile(4, 1000) EXCEPT !.readable = FALSE ],
       [ DiskFile(5, 1000) EXCEPT !.in_excluded_dir = TRUE ],
       DiskFile(6, 0) >>

Disks == { BigDisk(0), BigDisk(MaxRunFiles - 1), BigDisk(MaxRunFiles), MixedDisk }

\* Spec: what messages.create does for one request
Wrapped(tok) == << "p", "{", tok, "}", "p" >>

ApiOutcomes ==
    { [ outcome |-> "api_error", text |-> << >> ],
      [ outcome |-> "no_content", text |-> << >> ],
      [ outcome |-> "text", text |-> << "p", "p" >> ],
      [ outcome |-> "text", text |-> << "{", "p", "}" >> ],
      [ outcome |-> "text", text |-> << "p", "{", "}" >> ] }
    \cup { [ outcome |-> "text", text |-> Wrapped(tok) ] : tok \in IssuesTokens }

RunReviewTypes == { "comprehensive", "typo" }

(***************************************************************************)
(* Initial states.                                                         *)
(***************************************************************************)
Idle ==
    /\ chunk_i = 0
    /\ requests = 0
    /\ issues = NoValue
    /\ all_issues = << >>
    /\ review_summary = NoReport
    /\ critical_issues = << >>
    /\ high_issues = << >>
    /\ other_issues = << >>
    /\ issue_i = 0
    /\ labels = << >>
    /\ label_i = 0
    /\ kept = << >>
    /\ confirmed = {}
    /\ tracker_ops = {}
    /\ issue_calls = << >>
    /\ created_issues = 0
    /\ exit_status = Running

Init ==
    /\ pc = "main"
    /\ anthropic_key \in EnvValues
    /\ github_token \in EnvValues
    /\ review_type \in RunReviewTypes
    /\ files = << >>
    /\ max_tokens = DefaultMaxTokens
    /\ chunks = << >>
    /\ response_text = << >>
    /\ Idle

InitChunk ==
    /\ pc = "chunk_in"
    /\ anthropic_key = "secret"
    /\ github_token = "secret"
    /\ review_type = "comprehensive"
    /\ files \in FileLists
    /\ max_tokens \in 0..MaxBudget
    /\ chunks = << >>
    /\ response_text = << >>
    /\ Idle

InitParse ==
    /\ pc = "parse_in"
    /\ anthropic_key = "secret"
    /\ github_token = "secret"
    /\ review_type = "comprehensive"
    /\ files = << >>
    /\ max_tokens = DefaultMaxTokens
    /\ chunks = << >>
    /\ response_text \in ResponseTexts
    /\ Idle

(***************************************************************************)
(* SpecChunk and SpecParse: one call of the function on the drawn input.   *)
(***************************************************************************)
ChunkFiles ==
    /\ pc = "chunk_in"
    /\ chunks' = chunk_files_for_review(files, max_tokens)
    /\ pc' = "chunk_out"
    /\ UNCHANGED << anthropic_key, github_token, review_type, files, max_tokens,
                    chunk_i, requests, response_text, issues, all_issues,
                    review_summary, critical_issues, high_issues, other_issues,
                    issue_i, labels, label_i, kept, confirmed, tracker_ops,
                    issue_calls, created_issues, exit_status >>

ParseResponse ==
    /\ pc = "parse_in"
    /\ issues' = review_chunk([ outcome |-> "text", text |-> response_text ])
    /\ requests' = requests + 1
    /\ pc' = "parse_out"
    /\ UNCHANGED << anthropic_key, github_token, review_type, files, max_tokens,
                    chunks, chunk_i, response_text, all_issues, review_summary,
                    critical_issues, high_issues, other_issues, issue_i, labels,
                    label_i, kept, confirmed, tracker_ops, issue_calls,
                    created_issues, exit_status >>

(***************************************************************************)
(* Spec: the process.  Exit(status) is the end of __main__: status 1 from  *)
(* the except branch of lines 407-409, status 0 from falling off the end.  *)
(***************************************************************************)
Exit(status) ==
    /\ pc' = "exit"
    /\ exit_status' = status

\* __main__ line 405: ClaudeCodebaseReviewer()
Construct ==
    /\ pc = "main"
    /\ IF missing_credential(anthropic_key, github_token)
       THEN /\ Exit(1)
            /\ UNCHANGED tracker_ops
       ELSE /\ tracker_ops' = tracker_ops \cup { "get_repo" }
            /\ \E repo_ok \in BOOLEAN :
                   IF repo_ok
                   THEN pc' = "run" /\ UNCHANGED exit_status
                   ELSE Exit(1)
    /\ UNCHANGED << anthropic_key, github_token, review_type, files, max_tokens,
                    chunks, chunk_i, requests, response_text, issues, all_issues,
                    review_summary, critical_issues, high_issues, other_issues,
                    issue_i, labels, label_i, kept, confirmed, issue_calls,
                    created_issues >>

\* run, lines 368-375
CollectAndChunk ==
    /\ pc = "run"
    /\ \E disk \in Disks :
           /\ files' = get_codebase_files(disk)
           /\ chunks' = chunk_files_for_review(files', DefaultMaxTokens)
    /\ chunk_i' = 1
    /\ pc' = "review"
    /\ UNCHANGED << anthropic_key, github_token, review_type, max_tokens,
                    requests, response_text, issues, all_issues, review_summary,
                    critical_issues, high_issues, other_issues, issue_i, labels,
                    label_i, kept, confirmed, tracker_ops, issue_calls,
                    created_issues, exit_status >>

\* run, lines 379-386: one iteration of the review loop.  The prompt is
\* built before the try block, so an unknown review type raises KeyError;
\* extend() raises TypeError for a value that is no list.
ReviewStep ==
    /\ pc = "review"
    /\ chunk_i <= Len(chunks)
    /\ IF review_type \notin ReviewTypes
       THEN /\ Exit(1)
            /\ UNCHANGED << requests, issues, all_issues, chunk_i >>
       ELSE \E api \in ApiOutcomes :
                /\ requests' = requests + 1
                /\ issues' = review_chunk(api)
                /\ IF issues'.kind = "list"
                   THEN /\ all_issues' = all_issues \o issues'.items
                        /\ chunk_i' = chunk_i + 1
                        /\ UNCHANGED << pc, exit_status >>
                   ELSE /\ Exit(1)
                        /\ UNCHANGED << all_issues, chunk_i >>
    /\ UNCHANGED << anthropic_key, github_token, review_type, files, max_tokens,
                    chunks, response_text, review_summary, critical_issues,
                    high_issues, other_issues, issue_i, labels, label_i, kept,
                    confirmed, tracker_ops, issue_calls, created_issues >>

\* run, lines 388-401: the report, then the branch on all_issues
Report ==
    /\ pc = "review"
    /\ chunk_i > Len(chunks)
    /\ IF report_raises(all_issues)
       THEN /\ Exit(1)
            /\ UNCHANGED review_summary
       ELSE /\ review_summary' = generate_summary_report(all_issues)
            /\ IF all_issues # << >>
               THEN pc' = "create_issues" /\ UNCHANGED exit_status
               ELSE Exit(0)
    /\ UNCHANGED << anthropic_key, github_token, review_type, files, max_tokens,
                    chunks, chunk_i, requests, response_text, issues, all_issues,
                    critical_issues, high_issues, other_issues, issue_i, labels,
                    label_i, kept, confirmed, tracker_ops, issue_calls,
                    created_issues >>

\* create_github_issues, lines 205-210
SplitBySeverity ==
    /\ pc = "create_issues"
    /\ critical_issues' = select_critical(all_issues)
    /\ high_issues' = select_high(all_issues)
    /\ other_issues' = select_other(all_issues)
    /\ issue_i' = 1
    /\ pc' = "issue_loop"
    /\ UNCHANGED << anthropic_key, github_token, review_type, files, max_tokens,
                    chunks, chunk_i, requests, response_text, issues, all_issues,
                    review_summary, labels, label_i, kept, confirmed,
                    tracker_ops, issue_calls, created_issues, exit_status >>

Individual == critical_issues \o high_issues

\* an exception raised inside the try block of lines 214-257
RaiseInIssue(exc) ==
    IF per_issue_except(exc)
    THEN /\ issue_i' = issue_i + 1
         /\ pc' = "issue_loop"
         /\ UNCHANGED exit_status
    ELSE /\ Exit(1)
         /\ UNCHANGED issue_i

\* lines 215-241: title, body and label list of the next issue
IssueBegin ==
    /\ pc = "issue_loop"
    /\ issue_i <= Len(Individual)
    /\ IF title_raises(Individual[issue_i])
       THEN /\ RaiseInIssue("KeyError")
            /\ UNCHANGED << labels, label_i, kept >>
       ELSE /\ labels' = issue_labels(Individual[issue_i])
            /\ label_i' = 1
            /\ kept' = << >>
            /\ pc' = "labels"
            /\ UNCHANGED << issue_i, exit_status >>
    /\ UNCHANGED << anthropic_key, github_token, review_type, files, max_tokens,
                    chunks, chunk_i, requests, response_text, issues, all_issues,
                    review_summary, critical_issues, high_issues, other_issues,
                    confirmed, tracker_ops, issue_calls, created_issues >>

\* line 247: one label_exists call of the comprehension
LabelExists ==
    /\ pc = "labels"
    /\ label_i <= Len(labels)
    /\ \E outcome \in LabelOutcomes :
           /\ tracker_ops' = tracker_ops \cup label_ops(outcome)
           /\ confirmed' = IF outcome = "failed" THEN confirmed
                           ELSE confirmed \cup { labels[label_i] }
           /\ kept' = IF label_exists(outcome)
                      THEN Append(kept, labels[label_i]) ELSE kept
    /\ label_i' = label_i + 1
    /\ UNCHANGED << pc, anthropic_key, github_token, review_type, files,
                    max_tokens, chunks, chunk_i, requests, response_text, issues,
                    all_issues, review_summary, critical_issues, high_issues,
                    other_issues, issue_i, labels, issue_calls, created_issues,
                    exit_status >>

\* lines 244-254: repo.create_issue for the issue, then created_issues.append
CreateIssue ==
    /\ pc = "labels"
    /\ label_i > Len(labels)
    /\ tracker_ops' = tracker_ops \cup { "create_issue" }
    /\ \E ok \in BOOLEAN :
           /\ issue_calls' = Append(issue_calls,
                                [ for |-> issue_i,
                                  title |-> issue_title(Individual[issue_i]),
                                  body |-> issue_body(Individual[issue_i]),
                                  labels |-> kept,
                                  ok |-> ok ])
           /\ IF ok
              THEN /\ created_issues' = created_issues + 1
                   /\ issue_i' = issue_i + 1
                   /\ pc' = "issue_loop"
                   /\ UNCHANGED exit_status
              ELSE /\ RaiseInIssue("GithubException")
                   /\ UNCHANGED created_issues
    /\ UNCHANGED << anthropic_key, github_token, review_type, files, max_tokens,
                    chunks, chunk_i, requests, response_text, issues, all_issues,
                    review_summary, critical_issues, high_issues, other_issues,
                    labels, label_i, kept, confirmed >>

\* lines 260-263 with create_summary_issue, then run lines 397-401
CreateSummaryIssue ==
    /\ pc = "issue_loop"
    /\ issue_i > Len(Individual)
    /\ other_issues # << >>
    /\ tracker_ops' = tracker_ops \cup { "create_issue" }
    /\ \E ok \in BOOLEAN :
           /\ issue_calls' = Append(issue_calls,
                                [ for |-> 0,
                                  title |-> << "[Claude Review]",
                                               "Medium/Low Priority Findings" >>,
                                  body |-> summary_body(other_issues),
                                  labels |-> summary_labels,
                                  ok |-> ok ])
           /\ IF ok \/ summary_except("GithubException")
              THEN Exit(0)
              ELSE Exit(1)
    /\ UNCHANGED << anthropic_key, github_token, review_type, files, max_tokens,
                    chunks, chunk_i, requests, response_text, issues, all_issues,
                    review_summary, critical_issues, high_issues, other_issues,
                    issue_i, labels, label_i, kept, confirmed, created_issues >>

\* lines 260-263 when other_issues is empty, then run lines 397-401
ReturnWithoutSummary ==
    /\ pc = "issue_loop"
    /\ issue_i > Len(Individual)
    /\ other_issues = << >>
    /\ Exit(0)
    /\ UNCHANGED << anthropic_key, github_token, review_type, files, max_tokens,
                    chunks, chunk_i, requests, response_text, issues, all_issues,
                    review_summary, critical_issues, high_issues, other_issues,
                    issue_i, labels, label_i, kept, confirmed, tracker_ops,
                    issue_calls, created_issues >>

Next ==
    \/ Construct
    \/ CollectAndChunk
    \/ ReviewStep
    \/ Report
    \/ SplitBySeverity
    \/ IssueBegin
    \/ LabelExists
    \/ CreateIssue
    \/ CreateSummaryIssue
    \/ ReturnWithoutSummary

NextChunk == ChunkFiles

NextParse == ParseResponse

Spec == Init /\ [][Next]_vars

SpecChunk == InitChunk /\ [][NextChunk]_vars

SpecParse == InitParse /\ [][NextParse]_vars

\* the process runs to completion: every call returns
FairSpec == Spec /\ WF_vars(Next)

(***************************************************************************)
(* Properties.                                                             *)
(***************************************************************************)
BatchFloor(batch) ==
    SumSeq([ k \in 1..Len(batch) |-> batch[k].content_len \div CharsPerToken ])

BatchCeil(batch) ==
    SumSeq([ k \in 1..Len(batch) |->
               (batch[k].content_len + CharsPerToken - 1) \div CharsPerToken ])

Placements(path) ==
    { << b, k >> \in (1..Len(chunks)) \X (1..Len(files)) :
          k <= Len(chunks[b]) /\ chunks[b][k].path = path }

\* C1: the batches chunk_files_for_review returns, concatenated in batch
\* order, are the input sequence; every input file is in exactly one batch.
BatchesPartitionInput ==
    pc = "chunk_out" =>
        /\ Flatten(chunks) = files
        /\ \A i \in 1..Len(files) : Cardinality(Placements(files[i].path)) = 1

\* C1 witness: three files in two or more batches, one of them a single
\* file that alone exceeds the budget.
BatchesPartitionInputWitness ==
    /\ pc = "chunk_out"
    /\ Len(files) = 3
    /\ Len(chunks) >= 2
    /\ \E b \in 1..Len(chunks) :
           Len(chunks[b]) = 1 /\ BatchFloor(chunks[b]) > max_tokens
    /\ \E b \in 1..Len(chunks) : Len(chunks[b]) = 2

\* C2 as stated: every batch of two or more files has an estimated size,
\* the sum of ceil(content_length / 4), of at most the budget.
BatchCeilWithinBudget ==
    pc = "chunk_out" =>
        \A b \in 1..Len(chunks) :
            Len(chunks[b]) = 1 \/ BatchCeil(chunks[b]) <= max_tokens

\* C2 amended: every batch of two or more files has an estimated size, the
\* sum of floor(content_length / 4), of at most the budget.
BatchFloorWithinBudget ==
    pc = "chunk_out" =>
        \A b \in 1..Len(chunks) :
            Len(chunks[b]) = 1 \/ BatchFloor(chunks[b]) <= max_tokens

\* C2 witness: a batch of two files that fills the budget exactly, next to
\* a single-file batch above the budget.
BatchFloorWithinBudgetWitness ==
    /\ pc = "chunk_out"
    /\ max_tokens > 0
    /\ \E b \in 1..Len(chunks) :
           Len(chunks[b]) >= 2 /\ BatchFloor(chunks[b]) = max_tokens
    /\ \E b \in 1..Len(chunks) :
           Len(chunks[b]) = 1 /\ BatchFloor(chunks[b]) > max_tokens

SeverityKnown(issue) == issue.severity \in { "critical", "high", "medium", "low" }

GroupsHolding(issue) ==
    { g \in { "critical", "high", "other" } :
          \/ g = "critical" /\ issue \in Range(critical_issues)
          \/ g = "high" /\ issue \in Range(high_issues)
          \/ g = "other" /\ issue \in Range(other_issues) }

\* C3: once create_github_issues has split the aggregated issues, every
\* issue is in exactly one of critical, high and other, and an issue whose
\* severity is unknown or missing is in other.
SeveritySplitTotal ==
    pc \in { "issue_loop", "labels" } =>
        /\ Len(critical_issues) + Len(high_issues) + Len(other_issues)
             = Len(all_issues)
        /\ \A k \in 1..Len(all_issues) :
               /\ Cardinality(GroupsHolding(all_issues[k])) = 1
               /\ ~SeverityKnown(all_issues[k])
                    => all_issues[k] \in Range(other_issues)

\* C4: the four per-severity counts of the written report sum to its total.
SeverityCountsSumToTotal ==
    review_summary.written =>
        review_summary.critical + review_summary.high
          + review_summary.medium + review_summary.low = review_summary.total

\* C5: with a valid review type, once the review loop has started, whatever
\* the batches' reviews return, the process ends with status 0, the report
\* written and every batch reviewed.
ReviewNeverAborts ==
    (pc = "exit" /\ chunk_i >= 1 /\ review_type \in ReviewTypes) =>
        /\ exit_status = 0
        /\ review_summary.written
        /\ chunk_i = Len(chunks) + 1

CallsFor(k) == { c \in 1..Len(issue_calls) : issue_calls[c].for = k }

ReporterAllAttempted ==
    /\ exit_status = 0
    /\ issue_i = Len(Individual) + 1
    /\ \A k \in 1..Len(Individual) :
           ~title_raises(Individual[k]) => CallsFor(k) # {}
    /\ other_issues # << >> => CallsFor(0) # {}

\* C6: once the reporter's loop has started, whichever remote calls fail,
\* the process reaches its end with status 0, the loop having passed every
\* critical/high issue, create_issue having been called for each of them
\* whose title could be read, and for the summary when other is not empty.
ReporterCompletes ==
    (pc = "issue_loop" /\ issue_i = 1) ~> (pc = "exit" /\ ReporterAllAttempted)

\* C6 witness: a create_issue call that failed, with a label left out
\* because its query and creation failed, then a later per-issue call and
\* the summary call.
ReporterCompletesWitness ==
    /\ pc = "exit"
    /\ exit_status = 0
    /\ CallsFor(0) # {}
    /\ \E c1, c2 \in 1..Len(issue_calls) :
           /\ c1 < c2
           /\ ~issue_calls[c1].ok
           /\ Len(issue_calls[c1].labels) < Len(issue_labels(crit_full))
           /\ issue_calls[c2].for > issue_calls[c1].for

\* C7: every label passed to a create_issue call, per-issue or summary, has
\* been confirmed by a successful get_label or create_label call.
CallLabelsConfirmed ==
    \A c \in 1..Len(issue_calls) : Range(issue_calls[c].labels) \subseteq confirmed

\* C8: when the reporter has finished, create_issue has been called for
\* every critical/high issue, whichever of its fields are missing.
EveryIndividualIssueReachesCreate ==
    (pc = "exit" /\ issue_i >= 1) =>
        \A k \in 1..Len(Individual) : CallsFor(k) # {}

ObjectSpans(text) ==
    { ab \in (1..Len(text)) \X (1..Len(text)) :
          ab[1] < ab[2] /\ IsObject(SubSeq(text, ab[1], ab[2])) }

HasIssuesArray(obj) ==
    /\ TopIssues(obj) # {}
    /\ PayloadOf(obj[MaxOf(TopIssues(obj))]).kind = "list"

IssuesArrayOf(obj) == PayloadOf(obj[MaxOf(TopIssues(obj))]).items

NoBraceRegion(text) ==
    ~ \E i, j \in 1..Len(text) : i < j /\ text[i] = "{" /\ text[j] = "}"

ReturnsEmptyQuietly ==
    issues.kind = "list" /\ issues.items = << >> /\ ~issues.logged

\* C9 as stated: a response holding exactly one JSON object, which has an
\* issues array, yields that array; a response with no {...} region yields
\* an empty sequence and no exception.
ExtractsTheOneObject ==
    pc = "parse_out" =>
        /\ \A ab \in ObjectSpans(response_text) :
               ( /\ Cardinality(ObjectSpans(response_text)) = 1
                 /\ HasIssuesArray(SubSeq(response_text, ab[1], ab[2])) )
               => /\ issues.kind = "list"
                  /\ issues.items
                       = IssuesArrayOf(SubSeq(response_text, ab[1], ab[2]))
        /\ NoBraceRegion(response_text) => ReturnsEmptyQuietly

\* C9 amended: a response made of prose without "{", then one JSON object
\* with an issues array, then prose without "}", yields that array; a
\* response with no {...} region yields an empty sequence and no exception.
ExtractsTheDelimitedObject ==
    pc = "parse_out" =>
        /\ \A ab \in ObjectSpans(response_text) :
               ( /\ \A i \in 1..(ab[1] - 1) : response_text[i] # "{"
                 /\ \A j \in (ab[2] + 1)..Len(response_text) :
                        response_text[j] # "}"
                 /\ HasIssuesArray(SubSeq(response_text, ab[1], ab[2])) )
               => /\ issues.kind = "list"
                  /\ issues.items
                       = IssuesArrayOf(SubSeq(response_text, ab[1], ab[2]))
                  /\ ~issues.logged
        /\ NoBraceRegion(response_text) => ReturnsEmptyQuietly

\* C9 witness: prose, an object with an issues array, prose; the array is
\* returned.
ExtractsTheDelimitedObjectWitness ==
    /\ pc = "parse_out"
    /\ response_text = << "p", "{", "k", "{", "}", "iCrit", "}", "p" >>
          \/ response_text = << "p", "{", "iCrit", "}", "p" >>
    /\ issues.items = << crit_full >>

CredentialAbsent ==
    anthropic_key \in { Unset, "" } \/ github_token \in { Unset, "" }

\* C10: with a credential absent nothing is done: no file collected, no
\* review request sent, no report written, no issue-tracker call made, and
\* the process ends with status 1.
NoWorkWithoutCredentials ==
    CredentialAbsent =>
        /\ pc \in { "main", "exit" }
        /\ files = << >> /\ chunks = << >> /\ chunk_i = 0
        /\ requests = 0
        /\ review_summary = NoReport
        /\ tracker_ops = {}
        /\ issue_calls = << >>
        /\ pc = "exit" => exit_status = 1

\* C10 witness: the process has ended with status 1, the language-model key
\* set and the tracker token absent.
NoWorkWithoutCredentialsWitness ==
    /\ pc = "exit"
    /\ exit_status = 1
    /\ anthropic_key = "secret"
    /\ github_token = Unset

====
